---- MODULE Spec2Model ----
(***************************************************************************)
(* Event aggregation and caching pipeline of callux:                       *)
(*   src/src/cache.rs     EventCache (a moka future::Cache with a capacity *)
(*                        and a time-to-live)                              *)
(*   src/src/calendar.rs  CalendarClient (get_events, fetch, convert)      *)
(*   src/src/config.rs    Config, CacheConfig, CalendarConfig              *)
(*   src/src/main.rs      run (the agenda command)                         *)
(*   src/src/output.rs    OutputFormatter::format_events                   *)
(*                                                                         *)
(* Strings are TLC strings, so generate_key really joins and formats.      *)
(* Option<T> is a sequence of length 0 (None) or 1 (Some).  Times are      *)
(* instants in whole hours; a calendar date is a day number.               *)
(*                                                                         *)
(* Specifications:                                                         *)
(*   Spec          get_events, clear_cache and the clock, call by call     *)
(*   SpecHistory   the same, with the history of the stores kept           *)
(*   SpecWindows   get_events over more windows than the cache has room    *)
(*                 for                                                     *)
(*   SpecAgenda    one run of the agenda command                           *)
(*   SpecCache     EventCache on its own                                   *)
(*   SpecKey       generate_key as a pure function                         *)
(*   SpecConvert   convert_event as a pure function                        *)
(*   SpecConc      two get_events calls interleaved at their awaits        *)
(*   FairSpecConc  SpecConc with every await completing                    *)
(***************************************************************************)
EXTENDS Integers, Sequences, FiniteSets, TLC

VARIABLES
    config,     \* CalendarClient.config, fixed at construction
    cache,      \* EventCache.cache: key -> [events, age]
    last,       \* the operation that ran last, its inputs and its outcome
    keyIn,      \* inputs given to generate_key (pure-function specification)
    keyOut,     \* the keys generate_key returned for keyIn
    stored,     \* history, kept when stored.on: key -> ticks since a
                \* get_events call stored it and the calendars that
                \* failed in that call, for the stores that have not
                \* expired or been cleared since
    calls,      \* the get_events calls in progress, one record per caller
    shown       \* what the agenda command has printed: None before it has
                \* run, else its --limit argument and the events it rendered

vars == <<config, cache, last, keyIn, keyOut, stored, calls, shown>>

(*************************** bounds of the model ***************************)
MaxDays == 2        \* days_ahead ranges over 1..MaxDays
MaxLimit == 1       \* limit ranges over None, Some(0), .., Some(MaxLimit)
TtlTicks == 2       \* cache.ttl_seconds of the configurations, in ticks
Capacity == 1       \* cache.max_entries of the configurations
MaxEvents == 1      \* display.max_events ranges over 0..MaxEvents

DefaultDays == 7    \* days.unwrap_or(7) of the agenda command

(****************************** Option, Result *****************************)
None == <<>>
Some(x) == <<x>>
IsSome(o) == o # <<>>
Unwrap(o) == o[1]

unwrap_or(o, d) == IF IsSome(o) THEN Unwrap(o) ELSE d

Ok(v) == [ok |-> TRUE, val |-> v]
Err == [ok |-> FALSE, val |-> <<>>]

Min(a, b) == IF a <= b THEN a ELSE b

Range(s) == {s[i] : i \in 1..Len(s)}

Restrict(f, S) == [k \in S |-> f[k]]

(************************* configuration (config.rs) ***********************)
CalendarConfig(id, name, color, enabled) ==
    [id |-> id, name |-> name, color |-> color, enabled |-> enabled]

CalA == CalendarConfig("a", "Alpha", "#111", TRUE)
CalB == CalendarConfig("b", "Beta", "#222", TRUE)
CalBOff == CalendarConfig("b", "Beta", "#222", FALSE)
CalAOff == CalendarConfig("a", "Hidden", "#999", FALSE)

\* the calendar lists a configuration file may hold
CalendarLists ==
    { <<CalA, CalB>>,            \* two enabled calendars
      <<CalB, CalA>>,            \* the same calendars in the other order
      <<CalA, CalBOff>>,         \* one calendar disabled
      <<CalAOff, CalBOff>>,      \* nothing enabled
      <<CalAOff, CalA>> }        \* two entries share the id "a"

Configs ==
    { [calendars |-> cs,
       cache |-> [ttl_seconds |-> TtlTicks, max_entries |-> Capacity]] :
        cs \in CalendarLists }

Days == 1..MaxDays
Limits == {None} \cup {Some(n) : n \in 0..MaxLimit}

(******************* the calendar provider (collaborator) ******************)
EventDateTime(date_time, date) == [date_time |-> date_time, date |-> date]

RawEvent(id, summary, start, end) ==
    [id |-> id, summary |-> summary, description |-> None,
     start |-> start, end |-> end]

\* what the provider holds for each calendar, in the order it returns it
ProviderData(calendar_id) ==
    IF calendar_id = "a" THEN
      << RawEvent(Some("a1"), Some("Late"),
                  Some(EventDateTime(Some(30), None)),
                  Some(EventDateTime(Some(31), None))),
         RawEvent(Some("a2"), None,
                  Some(EventDateTime(Some(5), None)), None),
         RawEvent(Some("a3"), Some("NoStart"), None, None) >>
    ELSE IF calendar_id = "b" THEN
      << RawEvent(Some("b3"), Some("Empty"),
                  Some(EventDateTime(None, None)), None),
         RawEvent(Some("b1"), Some("Tie"),
                  Some(EventDateTime(Some(5), None)),
                  Some(EventDateTime(Some(3), None))),
         RawEvent(Some("b2"), Some("Holiday"),
                  Some(EventDateTime(None, Some(0))),
                  Some(EventDateTime(None, Some(1)))) >>
    ELSE << >>

\* the calendar an event id belongs to at the provider
OriginOf(event_id) ==
    IF event_id \in {"a1", "a2", "a3"} THEN "a" ELSE "b"

HoursPerDay == 24

\* the instant a raw record starts, None when it has no usable start
RawStart(raw) ==
    IF ~IsSome(raw.start) THEN None
    ELSE IF IsSome(Unwrap(raw.start).date_time)
         THEN Some(Unwrap(Unwrap(raw.start).date_time))
    ELSE IF IsSome(Unwrap(raw.start).date)
         THEN Some(Unwrap(Unwrap(raw.start).date) * HoursPerDay)
    ELSE None

\* events().list(calendar_id).time_min(..).time_max(..).doit()
ProviderList(calendar_id, time_min, time_max) ==
    LET InWindow(raw) ==
            ~IsSome(RawStart(raw))
            \/ (Unwrap(RawStart(raw)) >= time_min
                /\ Unwrap(RawStart(raw)) < time_max)
    IN  SelectSeq(ProviderData(calendar_id), InWindow)

(************************ conversion (calendar.rs) **************************)
OneHour == 1

\* The local zone (chrono::Local): on DstDate the clocks go forward by one
\* hour, so that local day is one hour shorter than the others.
DstDate == 1

LocalDayHours(date) ==
    IF date = DstDate THEN HoursPerDay - OneHour ELSE HoursPerDay

\* Local.from_local_datetime(&date.and_hms_opt(0, 0, 0)): the instant of
\* midnight local time on the date; instants count hours from midnight of
\* date 0
RECURSIVE from_local_midnight(_)
from_local_midnight(date) ==
    IF date <= 0 THEN 0
    ELSE from_local_midnight(date - 1) + LocalDayHours(date - 1)

\* mutant: an end without a timed value is taken from its date
convert_event_EndFromDate(event, calendar_config) ==
    LET Built(start_time, end_time, all_day) ==
            Some([id |-> unwrap_or(event.id, ""),
                  title |-> unwrap_or(event.summary, "Untitled Event"),
                  description |-> event.description,
                  start_time |-> start_time, end_time |-> end_time,
                  calendar_name |-> calendar_config.name,
                  calendar_color |-> calendar_config.color,
                  all_day |-> all_day])
    IN  IF ~IsSome(event.start) THEN None
        ELSE IF IsSome(Unwrap(event.start).date_time) THEN
            LET start_dt == Unwrap(Unwrap(event.start).date_time)
                end_dt ==
                    IF ~IsSome(event.end) THEN start_dt + OneHour
                    ELSE IF IsSome(Unwrap(event.end).date_time)
                         THEN Unwrap(Unwrap(event.end).date_time)
                    ELSE IF IsSome(Unwrap(event.end).date)
                         THEN from_local_midnight(
                                  Unwrap(Unwrap(event.end).date))
                    ELSE start_dt + OneHour
            IN  Built(start_dt, end_dt, FALSE)
        ELSE IF IsSome(Unwrap(event.start).date) THEN
            LET start_dt ==
                    from_local_midnight(Unwrap(Unwrap(event.start).date))
            IN  Built(start_dt, start_dt + HoursPerDay, TRUE)
        ELSE None

\* CalendarClient::convert_event; the Result is always Ok, this is its Option
convert_event(event, calendar_config) ==
    LET id == unwrap_or(event.id, "")
        title == unwrap_or(event.summary, "Untitled Event")
        description == event.description
        Built(start_time, end_time, all_day) ==
            Some([id |-> id, title |-> title, description |-> description,
                  start_time |-> start_time, end_time |-> end_time,
                  calendar_name |-> calendar_config.name,
                  calendar_color |-> calendar_config.color,
                  all_day |-> all_day])
    IN  IF IsSome(event.start) THEN
            LET start == Unwrap(event.start) IN
            IF IsSome(start.date_time) THEN
                LET start_dt == Unwrap(start.date_time)
                    end_dt ==
                        IF IsSome(event.end) THEN
                            IF IsSome(Unwrap(event.end).date_time)
                            THEN Unwrap(Unwrap(event.end).date_time)
                            ELSE start_dt + OneHour
                        ELSE start_dt + OneHour
                IN  Built(start_dt, end_dt, FALSE)
            ELSE IF IsSome(start.date) THEN
                LET start_dt == from_local_midnight(Unwrap(start.date))
                    end_dt == start_dt + HoursPerDay
                IN  Built(start_dt, end_dt, TRUE)
            ELSE None
        ELSE None

\* self.config.calendars.iter().find(|cal| cal.id == calendar_id)
FindCalendar(cfg, calendar_id) ==
    LET idx == {i \in 1..Len(cfg.calendars) :
                    cfg.calendars[i].id = calendar_id}
    IN  IF idx = {} THEN None
        ELSE Some(cfg.calendars[CHOOSE i \in idx : \A j \in idx : i <= j])

\* the loop of fetch_calendar_events: convert each record, keep the Some
RECURSIVE ConvertAll(_, _)

\* mutant: the first record that converts to nothing ends the loop
ConvertAll_StopAtNone(events, calendar_config) ==
    IF events = <<>> THEN <<>>
    ELSE LET cal_event == convert_event(Head(events), calendar_config)
         IN  IF IsSome(cal_event)
             THEN <<Unwrap(cal_event)>>
                  \o ConvertAll(Tail(events), calendar_config)
             ELSE <<>>

ConvertAll(events, calendar_config) ==
    IF events = <<>> THEN <<>>
    ELSE LET cal_event == convert_event(Head(events), calendar_config)
         IN  (IF IsSome(cal_event) THEN <<Unwrap(cal_event)>> ELSE <<>>)
             \o ConvertAll(Tail(events), calendar_config)

\* CalendarClient::fetch_calendar_events; failing is the set of calendars
\* whose provider request fails during this call
fetch_calendar_events(cfg, calendar_id, start_time, end_time, failing) ==
    IF calendar_id \in failing THEN Err
    ELSE LET calendar_config == FindCalendar(cfg, calendar_id) IN
         IF ~IsSome(calendar_config) THEN Err
         ELSE Ok(ConvertAll(ProviderList(calendar_id, start_time, end_time),
                            Unwrap(calendar_config)))

(************************ merge and sort (calendar.rs) *********************)
\* mutant: an unstable sort, e goes in front of the elements equal to it
InsertPosition_Unstable(sorted, e) ==
    Cardinality({i \in 1..Len(sorted) :
                    sorted[i].start_time < e.start_time})

\* where a stable sort places e in an already sorted prefix: behind every
\* element that does not compare greater
InsertPosition(sorted, e) ==
    Cardinality({i \in 1..Len(sorted) :
                    sorted[i].start_time <= e.start_time})

InsertSorted(sorted, e) ==
    LET k == InsertPosition(sorted, e)
    IN  SubSeq(sorted, 1, k) \o <<e>> \o SubSeq(sorted, k + 1, Len(sorted))

\* all_events.sort_by(|a, b| a.start_time.cmp(&b.start_time)), a stable sort
RECURSIVE sort_by_start_time(_)
sort_by_start_time(events) ==
    IF events = <<>> THEN <<>>
    ELSE InsertSorted(sort_by_start_time(SubSeq(events, 1, Len(events) - 1)),
                      events[Len(events)])

\* what one iteration of the fetch loop adds to all_events
FetchedOrSkipped(result) == IF result.ok THEN result.val ELSE <<>>

\* the for loop of fetch_events_from_api: all_events before the sort, and
\* the provider requests issued, one per iteration
RECURSIVE FetchLoop(_, _, _, _, _)

\* mutant: the first failing calendar ends the loop
FetchLoop_Break(cfg, calendar_ids, now, end_time, failing) ==
    IF calendar_ids = <<>> THEN [all_events |-> <<>>, requests |-> <<>>]
    ELSE LET result == fetch_calendar_events(cfg, Head(calendar_ids),
                                             now, end_time, failing)
             rest == IF result.ok
                     THEN FetchLoop(cfg, Tail(calendar_ids), now, end_time,
                                    failing)
                     ELSE [all_events |-> <<>>, requests |-> <<>>]
         IN  [all_events |-> FetchedOrSkipped(result) \o rest.all_events,
              requests |-> <<Head(calendar_ids)>> \o rest.requests]

FetchLoop(cfg, calendar_ids, now, end_time, failing) ==
    IF calendar_ids = <<>> THEN [all_events |-> <<>>, requests |-> <<>>]
    ELSE LET rest == FetchLoop(cfg, Tail(calendar_ids), now, end_time,
                               failing)
             result == fetch_calendar_events(cfg, Head(calendar_ids),
                                             now, end_time, failing)
         IN  [all_events |-> FetchedOrSkipped(result) \o rest.all_events,
              requests |-> <<Head(calendar_ids)>> \o rest.requests]

\* CalendarClient::fetch_events_from_api; auth_ok is whether the
\* authenticator and the HTTPS connector could be set up
fetch_events_from_api(cfg, calendar_ids, days_ahead, failing, auth_ok) ==
    IF ~auth_ok THEN [ok |-> FALSE, val |-> <<>>, requests |-> <<>>]
    ELSE LET now == 0
             end_time == now + days_ahead * HoursPerDay
             loop == FetchLoop(cfg, calendar_ids, now, end_time, failing)
         IN  [ok |-> TRUE, val |-> sort_by_start_time(loop.all_events),
              requests |-> loop.requests]

(***************************** cache (cache.rs) ****************************)
RECURSIVE Join(_, _)
Join(strs, sep) ==
    IF strs = <<>> THEN ""
    ELSE IF Len(strs) = 1 THEN strs[1]
    ELSE strs[1] \o sep \o Join(Tail(strs), sep)

\* EventCache::generate_key
generate_key(calendar_ids, days_ahead) ==
    Join(calendar_ids, ",") \o ":" \o ToString(days_ahead)

\* mutant: entries never expire
IsExpired_Never(entry, cfg) == FALSE

\* time_to_live: an entry is expired once its age has reached the ttl
IsExpired(entry, cfg) == entry.age >= cfg.cache.ttl_seconds

\* EventCache::get on the map c
CacheGet(c, cfg, key) ==
    IF key \in DOMAIN c /\ ~IsExpired(c[key], cfg)
    THEN Some(c[key].events) ELSE None

\* mutant: an existing entry is kept, only a new key is inserted
CacheSet_KeepOld(c, key, events) ==
    [k \in DOMAIN c \cup {key} |->
        IF k \in DOMAIN c THEN c[k] ELSE [events |-> events, age |-> 0]]

\* EventCache::set on the map c: insert or replace, age back to zero
CacheSet(c, key, events) ==
    [k \in DOMAIN c \cup {key} |->
        IF k = key THEN [events |-> events, age |-> 0] ELSE c[k]]

\* EventCache::invalidate on the map c
CacheInvalidate(c, key) == Restrict(c, DOMAIN c \ {key})

\* EventCache::clear on the map c
CacheClear(c) == Restrict(c, {})

\* The maintenance moka runs on the map: expired entries are dropped and
\* max_capacity is enforced.  Which entries go (a resident entry, or the
\* entry inserted last, which the admission policy may reject) is the
\* library's choice, so every choice is an outcome.
Housekeep(c, cfg) ==
    LET live == {k \in DOMAIN c : ~IsExpired(c[k], cfg)}
        n == Min(Cardinality(live), cfg.cache.max_entries)
    IN  {Restrict(c, K) : K \in {S \in SUBSET live : Cardinality(S) = n}}

\* moka applies pending maintenance lazily, inside later reads and writes:
\* it may or may not run during a given call
PendingTasks(c, cfg) == {c} \cup Housekeep(c, cfg)

\* the clock advances by one tick: every entry is one tick older, and
\* the entries that expire are dropped from the map
AgeAll(c, cfg) ==
    LET aged == [k \in DOMAIN c |->
                    [c[k] EXCEPT
                        !.age = Min(c[k].age + 1, cfg.cache.ttl_seconds)]]
    IN  Restrict(aged, {k \in DOMAIN aged : ~IsExpired(aged[k], cfg)})

(************************ get_events (calendar.rs) **************************)
\* mutant: the enabled flag is not looked at
EnabledCalendars_All(cfg) == cfg.calendars

\* self.config.calendars.iter().filter(|cal| cal.enabled).collect()
EnabledCalendars(cfg) == SelectSeq(cfg.calendars, LAMBDA cal : cal.enabled)

\* enabled_calendars.iter().map(|cal| cal.id.clone()).collect()
CalendarIds(cals) == [i \in 1..Len(cals) |-> cals[i].id]

\* events.into_iter().take(limit).collect()
take(events, n) == SubSeq(events, 1, Min(n, Len(events)))

\* limited_events of get_events
Truncate(events, limit) ==
    IF IsSome(limit) THEN take(events, Unwrap(limit)) ELSE events

\* what get_events returns on a cache hit: return Ok(cached_events)
HitResult(cached_events, limit) == cached_events

\* mutant: the truncated list is what gets stored
StoredList_Truncated(events, limit) == Truncate(events, limit)

\* what get_events hands to cache.set on a miss: events.clone()
StoredList(events, limit) == events

(******************************* the state *********************************)
Idle ==
    [op |-> "none", key |-> "", days |-> 0, limit |-> None, hit |-> FALSE,
     auth_ok |-> TRUE, requested |-> <<>>, failed |-> {}, full |-> <<>>,
     result |-> Ok(<<>>), got |-> None, age |-> 0,
     arg |-> <<>>, replaced |-> FALSE, size_before |-> 0, ticks |-> 0,
     after |-> None, known |-> FALSE, noted |-> None]

\* history of the stores made by get_events (cache.set at calendar.rs:47),
\* kept only when it is switched on
NoHistory == [on |-> FALSE, at |-> <<>>]

NoteStore(st, key, failed) ==
    IF ~st.on THEN st
    ELSE [st EXCEPT !.at = [k \in DOMAIN st.at \cup {key} |->
                                IF k = key
                                THEN [ticks |-> 0, failed |-> failed]
                                ELSE st.at[k]]]

NoteTick(st, cfg) ==
    LET aged == [k \in DOMAIN st.at |->
                    [st.at[k] EXCEPT !.ticks = @ + 1]]
    IN  [st EXCEPT !.at = Restrict(aged, {k \in DOMAIN aged :
                                    aged[k].ticks < cfg.cache.ttl_seconds})]

NoteClear(st) == [st EXCEPT !.at = <<>>]

Init ==
    /\ config \in Configs
    /\ cache = <<>>
    /\ last = Idle
    /\ keyIn = <<>>
    /\ keyOut = <<>>
    /\ stored = NoHistory
    /\ calls = <<>>
    /\ shown = None

\* the record of one get_events call
Call(cache_key, days_ahead, limit) ==
    [Idle EXCEPT !.op = "get_events", !.key = cache_key,
                 !.days = days_ahead, !.limit = limit,
                 !.known = cache_key \in DOMAIN stored.at,
                 !.noted = IF cache_key \in DOMAIN stored.at
                           THEN Some(stored.at[cache_key].failed)
                           ELSE None]

\* CalendarClient::get_events(days_ahead, limit).  Each intermediate value
\* of the function body is bound once (\E over a singleton) and then used.
GetEventsCall(days_ahead, limit) ==
    \E enabled_calendars \in {EnabledCalendars(config)} :
    \E calendar_ids \in {CalendarIds(enabled_calendars)} :
    \E cache_key \in {generate_key(calendar_ids, days_ahead)} :
    \E cached \in {CacheGet(cache, config, cache_key)} :
      IF IsSome(cached) THEN
          \* cache hit
          /\ cache' \in PendingTasks(cache, config)
          /\ stored' = stored
          /\ last' = [Call(cache_key, days_ahead, limit) EXCEPT
                        !.hit = TRUE,
                        !.full = Unwrap(cached),
                        !.result = Ok(HitResult(Unwrap(cached), limit))]
      ELSE
          \* cache miss: auth_ok = FALSE makes `?' return early, before
          \* any provider request; otherwise the requests of this call
          \* fail for the calendars in failing
          \E auth_ok \in BOOLEAN :
          \E failing \in IF auth_ok THEN SUBSET Range(calendar_ids)
                                    ELSE {{}} :
          \E fetched \in {fetch_events_from_api(config, calendar_ids,
                              days_ahead, failing, auth_ok)} :
            IF ~fetched.ok THEN
                /\ cache' \in PendingTasks(cache, config)
                /\ stored' = stored
                /\ last' = [Call(cache_key, days_ahead, limit) EXCEPT
                              !.auth_ok = auth_ok,
                              !.requested = fetched.requests,
                              !.failed = failing,
                              !.result = Err]
            ELSE
                /\ \E c \in PendingTasks(cache, config) :
                      cache' = CacheSet(c, cache_key,
                                        StoredList(fetched.val, limit))
                /\ stored' = NoteStore(stored, cache_key, failing)
                /\ last' = [Call(cache_key, days_ahead, limit) EXCEPT
                              !.requested = fetched.requests,
                              !.failed = failing,
                              !.full = fetched.val,
                              !.result = Ok(Truncate(fetched.val, limit))]

\* a get_events call of the client, with any window and any limit
GetEvents ==
    /\ \E days_ahead \in Days, limit \in Limits :
          GetEventsCall(days_ahead, limit)
    /\ UNCHANGED <<shown, config, keyIn, keyOut, calls>>

\* CalendarClient::clear_cache
ClearCache ==
    /\ cache' = CacheClear(cache)
    /\ last' = [Idle EXCEPT !.op = "clear_cache"]
    /\ stored' = NoteClear(stored)
    /\ UNCHANGED <<shown, config, keyIn, keyOut, calls>>

\* the set whose value a get reads back, while only time has passed since
SetThenTicks == last.op = "set" \/ (last.op = "tick" /\ last.ticks > 0)

\* time passes: every entry is one tick older.  After a set, the record
\* keeps that set and counts the ticks since (up to the ttl).
Tick ==
    /\ cache' = AgeAll(cache, config)
    /\ last' = IF SetThenTicks
               THEN [Idle EXCEPT
                       !.op = "tick", !.key = last.key, !.arg = last.arg,
                       !.replaced = last.replaced,
                       !.ticks = Min(last.ticks + 1,
                                     config.cache.ttl_seconds)]
               ELSE [Idle EXCEPT !.op = "tick"]
    /\ stored' = NoteTick(stored, config)
    /\ UNCHANGED <<shown, config, keyIn, keyOut, calls>>

Next == GetEvents \/ ClearCache \/ Tick

Spec == Init /\ [][Next]_vars

\* the same client, with the history of its stores kept
InitHistory ==
    /\ config \in Configs
    /\ cache = <<>>
    /\ last = Idle
    /\ keyIn = <<>>
    /\ keyOut = <<>>
    /\ stored = [on |-> TRUE, at |-> <<>>]
    /\ calls = <<>>
    /\ shown = None

NextHistory == GetEvents \/ ClearCache \/ Tick

SpecHistory == InitHistory /\ [][NextHistory]_vars

(********* get_events over more windows than the cache has room for ********)
Windows == 1..(Capacity + 2)

\* a configuration with both calendars enabled
InitWindows ==
    /\ Init
    /\ config.calendars = <<CalA, CalB>>

GetEventsWindows ==
    /\ \E days_ahead \in Windows : GetEventsCall(days_ahead, None)
    /\ UNCHANGED <<shown, config, keyIn, keyOut, calls>>

NextWindows == GetEventsWindows \/ ClearCache \/ Tick

SpecWindows == InitWindows /\ [][NextWindows]_vars

(************************ the agenda command (main.rs) *********************)
\* Config::load(): a configuration file with its display section
AgendaConfigs ==
    {[calendars |-> cfg.calendars, cache |-> cfg.cache,
      display |-> [max_events |-> m]] : cfg \in Configs, m \in 0..MaxEvents}

\* the --days and --limit arguments of the command line
AgendaDays == {None} \cup {Some(d) : d \in Days}
AgendaLimits == {None} \cup {Some(n) : n \in 0..(MaxEvents + 1)}

\* limit.or(Some(config.display.max_events))
or(limit, optb) == IF IsSome(limit) THEN limit ELSE optb

\* OutputFormatter::format_events: the events that are rendered
format_events(events, max_events) == take(events, max_events)

\* a process that has loaded its configuration and has not run a command
InitAgenda ==
    /\ config \in AgendaConfigs
    /\ cache = <<>>
    /\ last = Idle
    /\ keyIn = <<>>
    /\ keyOut = <<>>
    /\ stored = NoHistory
    /\ calls = <<>>
    /\ shown = None

\* run(Commands::Agenda {format, limit, days}): a new client, one get_events
\* call, and the formatter on its result; an error of get_events ends the
\* command before anything is rendered
Agenda ==
    /\ last.op = "none"
    /\ \E limit \in AgendaLimits, days \in AgendaDays :
       \E days_ahead \in {unwrap_or(days, DefaultDays)} :
       \E event_limit \in {or(limit, Some(config.display.max_events))} :
          /\ GetEventsCall(days_ahead, event_limit)
          /\ shown' = Some([limit |-> limit,
                            rendered |->
                                IF last'.result.ok
                                THEN Some(format_events(last'.result.val,
                                              config.display.max_events))
                                ELSE None])
    /\ UNCHANGED <<config, keyIn, keyOut, calls>>

NextAgenda == Agenda

SpecAgenda == InitAgenda /\ [][NextAgenda]_vars

(************* EventCache on its own: set, get, invalidate, clear **********)
\* the keys and the event lists handed to the cache
CacheKeys == {generate_key(<<"a">>, d) : d \in Days}

SampleEvents ==
    ConvertAll(ProviderData("a"), CalA) \o ConvertAll(ProviderData("b"), CalB)

SampleLists ==
    { <<>>, <<SampleEvents[1], SampleEvents[2]>>,
      <<SampleEvents[2], SampleEvents[1]>> }

InitCache ==
    /\ config \in {cfg \in Configs : cfg.calendars = <<CalA, CalB>>}
    /\ cache = <<>>
    /\ last = Idle
    /\ keyIn = <<>>
    /\ keyOut = <<>>
    /\ stored = NoHistory
    /\ calls = <<>>
    /\ shown = None

\* EventCache::set(key, events)
Set ==
    /\ \E key \in CacheKeys, events \in SampleLists :
         /\ \E c \in PendingTasks(cache, config) :
               cache' = CacheSet(c, key, events)
         /\ last' = [Idle EXCEPT
                       !.op = "set", !.key = key, !.arg = events,
                       !.hit = key \in DOMAIN cache,
                       !.size_before = Cardinality(DOMAIN cache),
                       !.replaced = /\ IsSome(CacheGet(cache, config, key))
                                    /\ cache[key].events # events]
    /\ UNCHANGED <<shown, config, keyIn, keyOut, stored, calls>>

\* EventCache::get(key)
Get ==
    /\ \E key \in CacheKeys :
         /\ cache' \in PendingTasks(cache, config)
         /\ last' = [Idle EXCEPT
                       !.op = "get", !.key = key,
                       !.got = CacheGet(cache, config, key),
                       !.hit = IsSome(CacheGet(cache, config, key)),
                       !.age = IF key \in DOMAIN cache
                               THEN cache[key].age ELSE 0,
                       !.after = IF SetThenTicks
                                 THEN Some([key |-> last.key,
                                            events |-> last.arg,
                                            replaced |-> last.replaced,
                                            ticks |-> last.ticks])
                                 ELSE None]
    /\ UNCHANGED <<shown, config, keyIn, keyOut, stored, calls>>

\* EventCache::invalidate(key): removing an entry that is present is a
\* write, during which pending maintenance may run; an absent key is left
Invalidate ==
    /\ \E key \in CacheKeys :
         /\ IF key \in DOMAIN cache
            THEN \E c \in PendingTasks(cache, config) :
                    cache' = CacheInvalidate(c, key)
            ELSE cache' = cache
         /\ last' = [Idle EXCEPT !.op = "invalidate", !.key = key,
                                 !.hit = key \in DOMAIN cache]
    /\ UNCHANGED <<shown, config, keyIn, keyOut, stored, calls>>

\* EventCache::clear()
Clear ==
    /\ cache' = CacheClear(cache)
    /\ last' = [Idle EXCEPT !.op = "clear"]
    /\ UNCHANGED <<shown, config, keyIn, keyOut, stored, calls>>

NextCache == Set \/ Get \/ Invalidate \/ Clear \/ ClearCache \/ Tick

SpecCache == InitCache /\ [][NextCache]_vars

(********************* generate_key as a pure function *********************)
MaxIds == 2         \* calendar-id lists of length 0..MaxIds

IdPool == {"a", "b", "a,b", "a,a", ""}

RECURSIVE SeqsUpTo(_, _)
SeqsUpTo(S, n) ==
    IF n = 0 THEN {<<>>}
    ELSE LET shorter == SeqsUpTo(S, n - 1)
         IN  shorter \cup {Append(q, x) : q \in shorter, x \in S}

KeyInputs ==
    {[calendar_ids |-> ids, days_ahead |-> d] :
        ids \in SeqsUpTo(IdPool, MaxIds), d \in (-1)..MaxDays}

InitKey ==
    /\ config \in {cfg \in Configs : cfg.calendars = <<CalA, CalB>>}
    /\ cache = <<>>
    /\ last = Idle
    /\ keyIn \in KeyInputs \X KeyInputs
    /\ keyOut = <<>>
    /\ stored = NoHistory
    /\ calls = <<>>
    /\ shown = None

\* two calls of generate_key, on the two inputs
GenerateKeys ==
    /\ keyOut = <<>>
    /\ keyOut' = <<generate_key(keyIn[1].calendar_ids, keyIn[1].days_ahead),
                   generate_key(keyIn[2].calendar_ids, keyIn[2].days_ahead)>>
    /\ UNCHANGED <<shown, config, cache, last, keyIn, stored, calls>>

NextKey == GenerateKeys

SpecKey == InitKey /\ [][NextKey]_vars

(********************* convert_event as a pure function ********************)
MaxHour == 2        \* timed values of a record range over 0..MaxHour
MaxDate == 2        \* dates of a record range over 0..MaxDate

OptionOf(S) == {None} \cup {Some(x) : x \in S}

EventDateTimes ==
    {EventDateTime(date_time, date) :
        date_time \in OptionOf(0..MaxHour), date \in OptionOf(0..MaxDate)}

\* the records the provider may hand to convert_event
RawEvents ==
    {RawEvent(Some("r1"), summary, start, end) :
        summary \in OptionOf({"Late"}),
        start \in OptionOf(EventDateTimes), end \in OptionOf(EventDateTimes)}

InitConvert ==
    /\ config \in Configs
    /\ cache = <<>>
    /\ last = Idle
    /\ keyIn = <<>>
    /\ keyOut = <<>>
    /\ stored = NoHistory
    /\ calls = <<>>
    /\ shown = None

\* one call convert_event(event, calendar_config)
ConvertEvent ==
    /\ last.op = "none"
    /\ \E event \in RawEvents, i \in 1..Len(config.calendars) :
         last' = [Idle EXCEPT
                    !.op = "convert_event",
                    !.arg = <<event, config.calendars[i]>>,
                    !.got = convert_event(event, config.calendars[i])]
    /\ UNCHANGED <<shown, config, cache, keyIn, keyOut, stored, calls>>

NextConvert == ConvertEvent

SpecConvert == InitConvert /\ [][NextConvert]_vars

(************** concurrent get_events calls on one client ******************)
\* get_events takes &self, so several calls may be in progress on one client;
\* each call runs from one await to the next in a step of its own.  The
\* calls modelled here are two calls for the same key on a fresh client.
Callers == {"c1", "c2"}

\* the limits the concurrent callers pass
CallerLimits == {None, Some(MaxLimit)}

IdleCall ==
    [pc |-> "idle", days |-> 0, limit |-> None, ids |-> <<>>, key |-> "",
     got |-> None, hit |-> FALSE, index |-> 0, all_events |-> <<>>,
     requested |-> <<>>, failed |-> {}, result |-> Ok(<<>>)]

InitConc ==
    /\ config \in Configs
    /\ cache = <<>>
    /\ last = Idle
    /\ keyIn = <<>>
    /\ keyOut = <<>>
    /\ stored = NoHistory
    /\ calls = [c \in Callers |-> IdleCall]
    /\ shown = None

\* the callers ask for the same days_ahead, hence for the same key
SameDays(c) ==
    {d \in Days : \A o \in Callers \ {c} :
                     calls[o].pc = "idle" \/ calls[o].days = d}

\* get_events is called: the ids of the enabled calendars and the key
CallGetEvents(c) ==
    /\ calls[c].pc = "idle"
    /\ \E days_ahead \in SameDays(c), limit \in CallerLimits :
       \E calendar_ids \in {CalendarIds(EnabledCalendars(config))} :
         calls' = [calls EXCEPT ![c] =
                     [IdleCall EXCEPT
                        !.pc = "get", !.days = days_ahead, !.limit = limit,
                        !.ids = calendar_ids,
                        !.key = generate_key(calendar_ids, days_ahead)]]
    /\ UNCHANGED <<shown, config, cache, last, keyIn, keyOut, stored>>

\* self.cache.get(&cache_key).await, and the return of a hit
CacheLookup(c) ==
    /\ calls[c].pc = "get"
    /\ \E cached \in {CacheGet(cache, config, calls[c].key)} :
         calls' = [calls EXCEPT ![c] =
                     IF IsSome(cached)
                     THEN [@ EXCEPT !.pc = "done", !.got = cached,
                                    !.hit = TRUE,
                                    !.result = Ok(HitResult(Unwrap(cached),
                                                      calls[c].limit))]
                     ELSE [@ EXCEPT !.pc = "auth"]]
    /\ cache' \in PendingTasks(cache, config)
    /\ UNCHANGED <<shown, config, last, keyIn, keyOut, stored>>

\* get_authenticator().await? and the HTTPS connector: an error returns
GetAuthenticator(c) ==
    /\ calls[c].pc = "auth"
    /\ \E auth_ok \in BOOLEAN :
         calls' = [calls EXCEPT ![c] =
                     IF auth_ok
                     THEN [@ EXCEPT !.pc = "fetch", !.index = 1]
                     ELSE [@ EXCEPT !.pc = "done", !.result = Err]]
    /\ UNCHANGED <<shown, config, cache, last, keyIn, keyOut, stored>>

\* mutant: the loop is left after its first iteration
LoopDone_AfterFirst(call) == call.index > Min(1, Len(call.ids))

\* the for loop over calendar_ids has run through
LoopDone(call) == call.index > Len(call.ids)

\* one iteration of the loop: fetch_calendar_events(..).await returns the
\* events of the calendar or fails
FetchCalendarEvents(c) ==
    /\ calls[c].pc = "fetch"
    /\ ~LoopDone(calls[c])
    /\ \E fails \in BOOLEAN :
       \E calendar_id \in {calls[c].ids[calls[c].index]} :
       \E result \in {fetch_calendar_events(
                         config, calendar_id, 0,
                         calls[c].days * HoursPerDay,
                         IF fails THEN {calendar_id} ELSE {})} :
         calls' = [calls EXCEPT ![c] =
                     [@ EXCEPT
                        !.index = @ + 1,
                        !.requested = Append(@, calendar_id),
                        !.failed = IF fails THEN @ \cup {calendar_id} ELSE @,
                        !.all_events = @ \o FetchedOrSkipped(result)]]
    /\ UNCHANGED <<shown, config, cache, last, keyIn, keyOut, stored>>

\* all_events.sort_by(..) and the return of fetch_events_from_api
SortEvents(c) ==
    /\ calls[c].pc = "fetch"
    /\ LoopDone(calls[c])
    /\ calls' = [calls EXCEPT ![c] =
                   [@ EXCEPT !.pc = "set",
                             !.all_events = sort_by_start_time(@)]]
    /\ UNCHANGED <<shown, config, cache, last, keyIn, keyOut, stored>>

\* self.cache.set(cache_key, events.clone()).await, the truncation and the
\* return; last keeps the set that ran last
CacheStore(c) ==
    /\ calls[c].pc = "set"
    /\ \E m \in PendingTasks(cache, config) :
         cache' = CacheSet(m, calls[c].key,
                           StoredList(calls[c].all_events, calls[c].limit))
    /\ calls' = [calls EXCEPT ![c] =
                   [@ EXCEPT !.pc = "done",
                             !.result = Ok(Truncate(calls[c].all_events,
                                                    calls[c].limit))]]
    /\ last' = [Idle EXCEPT !.op = "set", !.key = calls[c].key,
                            !.arg = calls[c].all_events]
    /\ UNCHANGED <<shown, config, keyIn, keyOut, stored>>

\* the steps of a call that has started
Resume(c) ==
    \/ CacheLookup(c)
    \/ GetAuthenticator(c)
    \/ FetchCalendarEvents(c)
    \/ SortEvents(c)
    \/ CacheStore(c)

NextConc == \E c \in Callers : CallGetEvents(c) \/ Resume(c)

SpecConc == InitConc /\ [][NextConc]_vars

\* every await of a call that has started completes: the cache, the
\* authenticator and each provider request return or fail
FairSpecConc ==
    /\ InitConc
    /\ [][NextConc]_vars
    /\ \A c \in Callers : WF_vars(Resume(c))

(***************************************************************************)
(* Properties of CalendarClient::get_events (specification Spec)           *)
(***************************************************************************)
\* the ids of the configuration entries that are enabled, in configured order
RECURSIVE EnabledIdsOf(_)
EnabledIdsOf(cals) ==
    IF cals = <<>> THEN <<>>
    ELSE (IF Head(cals).enabled THEN <<Head(cals).id>> ELSE <<>>)
         \o EnabledIdsOf(Tail(cals))

\* the call that ran last is a get_events that returned Ok
ReturnedOk == last.op = "get_events" /\ last.result.ok

\* the call that ran last is a get_events that missed and fetched
Fetched == ReturnedOk /\ ~last.hit

FirstN(list, n) == SubSeq(list, 1, IF n <= Len(list) THEN n ELSE Len(list))

\* C1: every get_events call with a limit, hit or miss, returns exactly the
\* first min(limit, n) events of the full sorted list of n events of its key
C1_LimitedResult ==
    (ReturnedOk /\ IsSome(last.limit)) =>
        last.result.val = FirstN(last.full, Unwrap(last.limit))

\* the full lists a fetch for the key of (ids, d) can produce
FullListsOf(ids, d) ==
    {fetch_events_from_api(config, ids, d, F, TRUE).val :
        F \in SUBSET Range(ids)}

\* C2: truncation never reaches the cache: every entry is a full, untruncated
\* list of a fetch for its key; a miss stores the full list it fetched (also
\* with limit = 0, which returns the empty list); a hit leaves the entry as
\* it is; and a call without a limit returns the whole entry
C2_CacheHoldsFullList ==
    LET ids == EnabledIdsOf(config.calendars) IN
    /\ \A k \in DOMAIN cache :
          \E d \in Days :
             /\ k = generate_key(ids, d)
             /\ cache[k].events \in FullListsOf(ids, d)
    /\ Fetched =>
          /\ last.full = fetch_events_from_api(config, ids, last.days,
                                               last.failed, TRUE).val
          /\ last.key \in DOMAIN cache
          /\ cache[last.key] = [events |-> last.full, age |-> 0]
          /\ last.limit = Some(0) => last.result.val = <<>>
    /\ (ReturnedOk /\ last.hit /\ last.key \in DOMAIN cache) =>
          cache[last.key].events = last.full
    /\ (ReturnedOk /\ last.limit = None) => last.result.val = last.full

\* a miss with limit = 0 returned nothing and stored a list of several events
C2_Witness ==
    /\ Fetched
    /\ last.limit = Some(0)
    /\ last.result.val = <<>>
    /\ Len(cache[last.key].events) >= 2

\* the position of an event in the fetch order: its calendar's position among
\* the fetched calendars, then its record's position in the provider's answer
FetchRank(ids, ev) ==
    LET origin == OriginOf(ev.id)
        calPos == CHOOSE i \in 1..Len(ids) :
                     /\ ids[i] = origin
                     /\ \A j \in 1..Len(ids) : ids[j] = origin => i <= j
        data == ProviderData(origin)
        recPos == CHOOSE i \in 1..Len(data) : data[i].id = Some(ev.id)
    IN  calPos * 100 + recPos

SortedStable(list, ids) ==
    \A i, j \in 1..Len(list) :
        i < j =>
            /\ list[i].start_time <= list[j].start_time
            /\ list[i].start_time = list[j].start_time =>
                  FetchRank(ids, list[i]) < FetchRank(ids, list[j])

\* C3: every list get_events returns or caches is sorted ascending by
\* start_time, and events with equal start_time keep their fetch order
\* (calendar order of the configuration, then record order of the provider)
C3_SortedStable ==
    LET ids == EnabledIdsOf(config.calendars) IN
    /\ ReturnedOk => SortedStable(last.result.val, ids)
    /\ \A k \in DOMAIN cache : SortedStable(cache[k].events, ids)

\* a returned list holds a tie between two calendars and an unsorted input
C3_Witness ==
    /\ ReturnedOk
    /\ Len(last.result.val) >= 3
    /\ \E i, j \in 1..Len(last.result.val) :
          /\ i < j
          /\ last.result.val[i].start_time = last.result.val[j].start_time
          /\ OriginOf(last.result.val[i].id) # OriginOf(last.result.val[j].id)

\* what one calendar contributes when its fetch succeeds
ConvertedEventsOf(calendar_id, d) ==
    ConvertAll(ProviderList(calendar_id, 0, d * HoursPerDay),
               Unwrap(FindCalendar(config, calendar_id)))

\* C4: a failing per-calendar fetch does not fail get_events: the fetched
\* list holds exactly the converted events of the calendars whose fetch
\* succeeded, each once, and nothing of the failed ones
C4_PartialFailure ==
    LET ids == EnabledIdsOf(config.calendars) IN
    (last.op = "get_events" /\ ~last.hit /\ last.auth_ok) =>
        /\ last.result.ok
        /\ Range(last.full) =
              UNION {Range(ConvertedEventsOf(cal, last.days)) :
                        cal \in Range(ids) \ last.failed}
        /\ Cardinality(Range(last.full)) = Len(last.full)
        /\ \A ev \in Range(last.full) : OriginOf(ev.id) \notin last.failed

\* the first calendar failed, the second one's events were returned
C4_Witness ==
    /\ Fetched
    /\ Len(last.requested) = 2
    /\ last.failed = {last.requested[1]}
    /\ Len(last.full) >= 1
    /\ \A ev \in Range(last.full) : OriginOf(ev.id) = last.requested[2]

\* the ids that only disabled configuration entries carry
DisabledOnlyIds ==
    {config.calendars[i].id : i \in 1..Len(config.calendars)}
        \ Range(EnabledIdsOf(config.calendars))

\* C10: a disabled calendar takes no part in get_events: the requests go to
\* the enabled ids in configured order, the key is built from exactly those
\* ids, and no event of a disabled calendar is returned or cached
C10_DisabledExcluded ==
    /\ last.op = "get_events" =>
          /\ last.key = generate_key(EnabledIdsOf(config.calendars),
                                     last.days)
          /\ Range(last.requested) \cap DisabledOnlyIds = {}
          /\ (~last.hit /\ last.auth_ok) =>
                last.requested = EnabledIdsOf(config.calendars)
          /\ \A ev \in Range(last.result.val) \cup Range(last.full) :
                OriginOf(ev.id) \notin DisabledOnlyIds
    /\ \A k \in DOMAIN cache : \A ev \in Range(cache[k].events) :
          OriginOf(ev.id) \notin DisabledOnlyIds

\* calendar b is disabled and a fetch returned events of calendar a alone
C10_Witness ==
    /\ Fetched
    /\ DisabledOnlyIds = {"b"}
    /\ last.requested = <<"a">>
    /\ Len(last.result.val) >= 1

\* C11: get_events returns an error only for a structurally invalid
\* configuration; every configuration of Configs is valid (each enabled
\* calendar has its metadata), so no call returns an error, whatever the
\* provider and the authenticator do
C11_NeverFails == last.op = "get_events" => last.result.ok

\* C15: every event get_events returns or the cache holds ends no earlier
\* than it starts
C15_EndNotBeforeStart ==
    /\ \A ev \in Range(last.result.val) \cup Range(last.full) :
          ev.end_time >= ev.start_time
    /\ \A k \in DOMAIN cache : \A ev \in Range(cache[k].events) :
          ev.end_time >= ev.start_time

\* a record with neither a timed start nor an all-day date
NoUsableStart(raw) ==
    \/ ~IsSome(raw.start)
    \/ /\ ~IsSome(Unwrap(raw.start).date_time)
       /\ ~IsSome(Unwrap(raw.start).date)

\* C14: a record with neither a timed start nor an all-day date converts to
\* no result, is absent from the aggregated list, and the other records of
\* its calendar (those inside the window) are all there
C14_DroppedRecord ==
    Fetched =>
        \A cal \in Range(last.requested) \ last.failed :
            LET records == ProviderList(cal, 0, last.days * HoursPerDay)
                entry == Unwrap(FindCalendar(config, cal))
            IN  \A i \in 1..Len(records) :
                    IF NoUsableStart(records[i])
                    THEN /\ convert_event(records[i], entry) = None
                         /\ \A ev \in Range(last.full) :
                               ev.id # Unwrap(records[i].id)
                    ELSE \E ev \in Range(last.full) :
                               ev.id = Unwrap(records[i].id)

\* calendar b answered with a record without start fields in front of two
\* usable records: the first is gone and the two others were returned
C14_Witness ==
    /\ Fetched
    /\ "b" \in Range(last.requested) \ last.failed
    /\ NoUsableStart(ProviderData("b")[1])
    /\ {ev.id : ev \in Range(last.full)} \cap {"b1", "b2", "b3"} = {"b1", "b2"}

\* C23: every event of a get_events result carries the name and the color
\* of an enabled configuration entry whose id is the calendar the event was
\* fetched from, also when several entries share that id
C23_NameAndColorOfEnabled ==
    ReturnedOk =>
        \A i \in 1..Len(last.result.val) :
           LET ev == last.result.val[i] IN
           \E j \in 1..Len(config.calendars) :
              LET cal == config.calendars[j] IN
              /\ cal.enabled
              /\ cal.id = OriginOf(ev.id)
              /\ ev.calendar_name = cal.name
              /\ ev.calendar_color = cal.color

(***************************************************************************)
(* Properties of get_events over its history (specification SpecHistory)   *)
(***************************************************************************)
\* no calendar of the configuration is enabled
NothingEnabled == EnabledIdsOf(config.calendars) = <<>>

\* C16: with no calendar enabled, get_events returns Ok with the empty list,
\* a miss stores the empty list under the key (a get of the key then returns
\* Some of the empty list, not None), and a call with a key that was stored
\* and has not expired since is a hit
C16_EmptySetCached ==
    (NothingEnabled /\ last.op = "get_events") =>
        /\ last.result = Ok(<<>>)
        /\ ~last.hit =>
              /\ last.key \in DOMAIN cache
              /\ cache[last.key] = [events |-> <<>>, age |-> 0]
              /\ CacheGet(cache, config, last.key) = Some(<<>>)
        /\ last.known => last.hit

\* C17: a get_events call whose key was stored by an earlier call, and has
\* neither expired nor been cleared since, returns from the cache and issues
\* no request; a call that misses issues one request per enabled calendar,
\* in configured order, and has set its key to the fetched list on return
C17_CacheAside ==
    last.op = "get_events" =>
        /\ last.known => (last.hit /\ last.requested = <<>>)
        /\ ~last.hit =>
              /\ last.requested = EnabledIdsOf(config.calendars)
              /\ last.key \in DOMAIN cache
              /\ cache[last.key] = [events |-> last.full, age |-> 0]

\* the list a miss stores for the key of the call that ran last when the
\* requests for the calendars in failed fail
StoredListWith(failed) ==
    fetch_events_from_api(config, EnabledIdsOf(config.calendars), last.days,
                          failed, TRUE).val

\* the key of the call that ran last was stored by an earlier call in which
\* a calendar failed, and has neither expired nor been cleared since
StoredDegraded == IsSome(last.noted) /\ Unwrap(last.noted) # {}

\* C21: a miss in which calendars fail stores the partial list it merged
\* under its key; and every later get_events call with that key within the
\* ttl returns that same degraded list from the cache and issues no request
C21_DegradedCached ==
    /\ (Fetched /\ last.failed # {}) =>
          /\ last.full = StoredListWith(last.failed)
          /\ last.key \in DOMAIN cache
          /\ cache[last.key] = [events |-> last.full, age |-> 0]
    /\ (last.op = "get_events" /\ StoredDegraded) =>
          /\ last.hit
          /\ last.requested = <<>>
          /\ last.result = Ok(StoredListWith(Unwrap(last.noted)))

(***************************************************************************)
(* Properties of a failing get_events call (specification SpecWindows)     *)
(***************************************************************************)
\* this step is a get_events call that returns an error
ReturnsErr == last'.op = "get_events" /\ ~last'.result.ok

\* C22: a get_events call that returns an error has issued no per-calendar
\* request and leaves the cache as it was: its key has no entry, so that the
\* next call with the key misses again, and every other entry is untouched
C22_ErrorLeavesCache ==
    [][ReturnsErr =>
          /\ ~last'.hit
          /\ last'.requested = <<>>
          /\ CacheGet(cache', config, last'.key) = None
          /\ cache' = cache]_vars

(***************************************************************************)
(* Properties of the agenda command (specification SpecAgenda)             *)
(***************************************************************************)
\* the agenda command has run and rendered the result of get_events
Rendered == IsSome(shown) /\ IsSome(Unwrap(shown).rendered)

\* the events available to the run: the full sorted list of its key
Available == Len(last.full)

\* C24: the agenda command renders min(limit, number of events available)
\* events, where limit is --limit when given and display.max_events
\* otherwise
C24_RenderedCount ==
    Rendered =>
        Len(Unwrap(Unwrap(shown).rendered)) =
            Min(unwrap_or(Unwrap(shown).limit, config.display.max_events),
                Available)

(***************************************************************************)
(* Properties of EventCache (specification SpecCache)                      *)
(***************************************************************************)
\* the get that ran last reads the key of the set before it, and only time
\* has passed between the two
GetAfterSet ==
    /\ last.op = "get"
    /\ IsSome(last.after)
    /\ Unwrap(last.after).key = last.key

\* C5: get never returns an entry whose age has reached the time-to-live;
\* an entry that was set is a miss once ttl ticks have passed; and set puts
\* the age of its entry back to zero
C5_Expiry ==
    /\ (last.op = "get" /\ IsSome(last.got)) =>
          last.age < config.cache.ttl_seconds
    /\ (GetAfterSet /\ Unwrap(last.after).ticks >= config.cache.ttl_seconds)
          => last.got = None
    /\ last.op = "set" =>
          (last.key \in DOMAIN cache /\ cache[last.key].age = 0)

\* a get missed on a key that was set ttl ticks before
C5_Witness ==
    /\ GetAfterSet
    /\ Unwrap(last.after).ticks = config.cache.ttl_seconds
    /\ last.got = None

\* C6: a get that follows set(key, events) before the ttl has passed returns
\* events, element for element, also when that set replaced another list
C6_RoundTrip ==
    (GetAfterSet /\ Unwrap(last.after).ticks < config.cache.ttl_seconds) =>
        last.got = Some(Unwrap(last.after).events)

\* a two-element list that replaced another list was read back
C6_Witness ==
    /\ GetAfterSet
    /\ Unwrap(last.after).replaced
    /\ IsSome(last.got)
    /\ Len(Unwrap(last.got)) = 2
    /\ Unwrap(last.got) = Unwrap(last.after).events

\* C8: the cache never holds more than max_entries keys, and a set of a new
\* key into a full cache evicts exactly one resident entry and keeps the
\* new key
C8_CapacityBound ==
    /\ Cardinality(DOMAIN cache) <= config.cache.max_entries
    /\ (/\ last.op = "set"
        /\ ~last.hit
        /\ last.size_before = config.cache.max_entries) =>
          /\ last.key \in DOMAIN cache
          /\ Cardinality(DOMAIN cache) = config.cache.max_entries

\* what a get of key would return in the given map
Reads(c, key) == CacheGet(c, config, key)

C9_Step ==
    /\ last'.op = "invalidate" =>
          /\ Reads(cache', last'.key) = None
          /\ \A k \in CacheKeys \ {last'.key} :
                Reads(cache', k) = Reads(cache, k)
          /\ last'.key \notin DOMAIN cache => cache' = cache
    /\ last'.op \in {"clear", "clear_cache"} =>
          \A k \in CacheKeys : Reads(cache', k) = None

\* C9: after invalidate(key) a get of key misses and every other key reads
\* as before, invalidate of an absent key changes nothing, and after clear()
\* or clear_cache() every get misses
C9_Invalidation == [][C9_Step]_vars

(***************************************************************************)
(* Properties of generate_key (specification SpecKey)                      *)
(***************************************************************************)
\* C7: generate_key is injective: two inputs that differ in the calendar-id
\* sequence or in days_ahead get different keys
C7_Injective ==
    (keyOut # <<>> /\ keyIn[1] # keyIn[2]) => keyOut[1] # keyOut[2]

\* the two id lists hold the same calendars, each once, in different orders
SameCalendarsReordered(ids1, ids2) ==
    /\ Len(ids1) = Len(ids2)
    /\ Range(ids1) = Range(ids2)
    /\ Cardinality(Range(ids1)) = Len(ids1)
    /\ ids1 # ids2

\* C20: two lists of the same distinct calendar ids in different orders get
\* different keys, whatever days_ahead is, so they never share a cache entry
C20_OrderSensitive ==
    (/\ keyOut # <<>>
     /\ SameCalendarsReordered(keyIn[1].calendar_ids, keyIn[2].calendar_ids))
        => keyOut[1] # keyOut[2]

(***************************************************************************)
(* Properties of concurrent calls (specifications SpecConc, FairSpecConc)  *)
(***************************************************************************)
\* the full sorted list of a call that fetched: what fetch_events_from_api
\* returns for the calendars that did not fail
FullListOf(call) ==
    fetch_events_from_api(config, call.ids, call.days, call.failed, TRUE).val

\* the call returned Ok with a complete sorted list: on a hit the list it
\* read, which is the full list of some fetch for the key; on a miss the
\* full list of its own fetch, cut to its limit
ReturnedCompleteList(call) ==
    /\ call.result.ok
    /\ IF call.hit
       THEN /\ call.result.val = Unwrap(call.got)
            /\ call.result.val \in FullListsOf(call.ids, call.days)
       ELSE /\ call.all_events = FullListOf(call)
            /\ call.result.val = Truncate(call.all_events, call.limit)

BothStartedSameKey ==
    /\ \A c \in Callers : calls[c].pc # "idle"
    /\ \A c, d \in Callers : calls[c].key = calls[d].key

BothDone == \A c \in Callers : calls[c].pc = "done"

\* C18: for two concurrent get_events calls with the same key, in every
\* interleaving: each call that has finished returned a complete sorted
\* list, no cache read saw anything but a list some set wrote whole, and
\* when both have finished the entry of the key is the list of the set
\* that ran last
C18_ConcurrentCalls ==
    BothStartedSameKey =>
        /\ \A c \in Callers :
              calls[c].pc = "done" => ReturnedCompleteList(calls[c])
        /\ \A c \in Callers :
              IsSome(calls[c].got) =>
                  Unwrap(calls[c].got)
                      \in FullListsOf(calls[c].ids, calls[c].days)
        /\ (BothDone /\ last.op = "set") =>
              /\ last.key \in DOMAIN cache
              /\ cache[last.key].events = last.arg

\* the call has merged and sorted: it is about to store, or it has stored
Merged(call) ==
    \/ call.pc = "set"
    \/ (call.pc = "done" /\ ~call.hit /\ call.result.ok)

\* every calendar of a merged call has been requested, in order, and the
\* merged list holds what the requests that did not fail returned
BarrierHolds ==
    \A c \in Callers :
        Merged(calls[c]) =>
            /\ calls[c].requested = calls[c].ids
            /\ calls[c].all_events = FullListOf(calls[c])

\* C19: the merge and sort step and the cache store of a call come only
\* after each of its per-calendar fetches has returned or failed, and a
\* call whose awaits all complete returns
C19_Barrier ==
    /\ []BarrierHolds
    /\ \A c \in Callers : (calls[c].pc # "idle") ~> (calls[c].pc = "done")

\* a call over two calendars has stored and returned, its first fetch having
\* failed, while the other call is still fetching
C19_Witness ==
    \E c, d \in Callers :
        /\ calls[c].pc = "done"
        /\ Merged(calls[c])
        /\ Len(calls[c].ids) = 2
        /\ calls[c].failed = {calls[c].ids[1]}
        /\ calls[c].key \in DOMAIN cache
        /\ calls[d].pc = "fetch"

(***************************************************************************)
(* Properties of convert_event (specification SpecConvert)                 *)
(***************************************************************************)
\* the record given to the convert_event call that ran
ConvertedRecord == last.arg[1]

HasTimedStart(raw) ==
    IsSome(raw.start) /\ IsSome(Unwrap(raw.start).date_time)

HasDateOnlyStart(raw) ==
    /\ IsSome(raw.start)
    /\ ~IsSome(Unwrap(raw.start).date_time)
    /\ IsSome(Unwrap(raw.start).date)

\* the timed end of a record, None when the end is absent or has no timed
\* value
TimedEnd(raw) ==
    IF IsSome(raw.end) THEN Unwrap(raw.end).date_time ELSE None

\* C12: a record with a timed start converts to an event that is not all-day
\* and starts at that timed start, whatever date the record also carries;
\* it ends at the record's timed end when there is one and one hour after
\* the start otherwise
C12_TimedRule ==
    (last.op = "convert_event" /\ HasTimedStart(ConvertedRecord)) =>
        LET start == Unwrap(Unwrap(ConvertedRecord.start).date_time) IN
        /\ IsSome(last.got)
        /\ Unwrap(last.got).all_day = FALSE
        /\ Unwrap(last.got).start_time = start
        /\ Unwrap(last.got).end_time =
              IF IsSome(TimedEnd(ConvertedRecord))
              THEN Unwrap(TimedEnd(ConvertedRecord))
              ELSE start + 1

\* a record with a timed start and a date on its start, and an end that has
\* only a date, became a timed event of one hour
C12_Witness ==
    /\ last.op = "convert_event"
    /\ HasTimedStart(ConvertedRecord)
    /\ IsSome(Unwrap(ConvertedRecord.start).date)
    /\ IsSome(ConvertedRecord.end)
    /\ Unwrap(ConvertedRecord.end).date_time = None
    /\ Unwrap(ConvertedRecord.end).date = Some(MaxDate)
    /\ IsSome(last.got)
    /\ Unwrap(last.got).end_time = Unwrap(last.got).start_time + 1

\* C13: a record whose start has only a date converts to an all-day event
\* from midnight local time on that date to midnight local time on the
\* following date, whatever its end field holds
C13_AllDayRule ==
    (last.op = "convert_event" /\ HasDateOnlyStart(ConvertedRecord)) =>
        LET date == Unwrap(Unwrap(ConvertedRecord.start).date) IN
        /\ IsSome(last.got)
        /\ Unwrap(last.got).all_day = TRUE
        /\ Unwrap(last.got).start_time = from_local_midnight(date)
        /\ Unwrap(last.got).end_time = from_local_midnight(date + 1)

====
